---- MODULE Spec2Model ----
(***************************************************************************)
(* A model of django-cropduster:                                           *)
(*   - the regenerate_thumbs management command (Command.handle,           *)
(*     Command.get_sizes, Command.resize_image) over a small filesystem;   *)
(*   - process_image of cropduster/utils/image.py;                         *)
(*   - the geometry getters and save of cropduster.models.ImageSize;       *)
(*   - smart_resize of cropduster/utils/image.py.                          *)
(* Each part has its own specification over the shared variables; the      *)
(* variables of the other parts stay at their initial value.               *)
(***************************************************************************)
EXTENDS Integers, Sequences, FiniteSets, TLC

VARIABLES
    \* ---- the filesystem
    fs,          \* file path -> content ("absent" when there is no file)
    dirs,        \* the directories that exist
    \* ---- Command.handle (the batch driver), run by process Main
    hpc,         \* "iter" | "done" | "aborted"
    n,           \* number of (obj, field) items the loops have taken
    warned,      \* number of 'Could not open image' warnings logged
    herr,        \* the exception that left handle, "" when none
    \* ---- Command.resize_image, one activation per process
    pc,          \* position of each activation
    force,       \* options['force'] of each command invocation
    stretch,     \* options['stretch'] of each command invocation
    image,       \* the opened image
    sizes,       \* the sizes the for loop has not taken yet
    cur,         \* the loop variable `size`
    tmp_path,    \* the local tmp_path, Unbound until first assigned
    exc,         \* the exception that left resize_image, "" when none
    \* ---- history (what the log and an observer of the filesystem record)
    status,      \* per activation: slug -> what happened to that size
    before,      \* content of the destination when the loop took `cur`
    wrote,       \* the activation changed the filesystem
    failed,      \* rescale or save raised in the activation
    prev,        \* the last activation that returned: its image, whether
                 \* nothing raised in it, and the image's files as it left them
    \* ---- process_image (cropduster/utils/image.py)
    im,          \* the source: format, info, filename
    save_filename, \* None, or the path to save to
    settings,    \* CROPDUSTER_GIFSICLE_PATH, numpy, scipy, JPEG_SAVE_ICC_SUPPORTED
    ppc,         \* position in process_image
    images,      \* the local `images`
    new_images,  \* the local `new_images`
    warned_msgs, \* the warnings.warn messages issued
    written,     \* the files process_image wrote: path -> what was written
    result,      \* what process_image returned
    \* ---- ImageSize (cropduster/models.py)
    isz,         \* the fields width, height, aspect_ratio of an ImageSize
    gcall,       \* the method called last and what it returned
    gexc,        \* the exception that left that call, "" when none
    \* ---- smart_resize (cropduster/utils/image.py)
    sr_arg,      \* the arguments: im, final_w, final_h
    pillow_version, \* PIL.PILLOW_VERSION, None when PIL has no such attribute
    sr_pc,       \* "off" | "start" | "loop" | "crop" | "coarse" | "final"
                 \* | "returned"
    sr_im,       \* the local im
    orig,        \* the locals (orig_w, orig_h)
    sr_i,        \* the loop variable i (ratio = i / 8)
    cropped,     \* None, or the image im.crop(...) returned
    sr_ret       \* None, or the image smart_resize returned

regenVars == <<fs, dirs, hpc, n, warned, herr, pc, force, stretch, image,
               sizes, cur, tmp_path, exc, status, before, wrote, failed, prev>>

procVars == <<im, save_filename, settings, ppc, images, new_images,
              warned_msgs, written, result>>

geomVars == <<isz, gcall, gexc>>

resizeVars == <<sr_arg, pillow_version, sr_pc, sr_im, orig, sr_i, cropped,
                sr_ret>>

vars == <<regenVars, procVars, geomVars, resizeVars>>

(***************************************************************************)
(* Bounds and fixtures                                                     *)
(***************************************************************************)
MaxBatch == 2

\* the command invocations: Main runs handle; the other only takes part when
\* two commands run at once
Procs == {"cmd1", "cmd2"}
Main == "cmd1"

Images == {"small", "big"}
Slugs == {"thumb", "large"}

Unbound == [dir |-> "", base |-> "", ext |-> "<unbound>"]
NoSize == [name |-> "", path |-> Unbound, crop |-> FALSE, width |-> 0, height |-> 0]

\* cd_image.image.width / height of the fixtures
ImageDims(img) == IF img = "small" THEN <<2, 2>> ELSE <<4, 4>>

\* cd_image.size_set: the ImageSize rows of the fixtures
SizeSet ==
    { [slug |-> "thumb", width |-> 1, height |-> 1, auto_size |-> TRUE],
      [slug |-> "large", width |-> 3, height |-> 3, auto_size |-> FALSE] }

(***************************************************************************)
(* Paths                                                                   *)
(***************************************************************************)
\* Image.thumbnail_path: <dir of image>/<file root>/<slug><extension>
thumbnail_path(img, slug) == [dir |-> img, base |-> slug, ext |-> ".jpg"]

\* tmp_path = size.path + '.tmp'  (variant: the output path itself)
TmpPath_direct(path) == path
TmpPath(path) == [path EXCEPT !.ext = @ \o ".tmp"]

\* folder, _basename = os.path.split(size.path)
Folder(path) == path.dir

DestPaths == { thumbnail_path(img, s) : img \in Images, s \in Slugs }
FilePaths == DestPaths \cup { TmpPath(p) : p \in DestPaths }

Contents == {"absent", "empty", "old", "partial", "thumb"}

\* the destination files of one image, by slug
FilesOf(img) == [s \in Slugs |-> fs[thumbnail_path(img, s)]]

\* os.path.isfile and os.stat(...).st_size
isfile(path) == fs[path] # "absent"
st_size(path) == CASE fs[path] = "empty" -> 0
                   [] fs[path] = "partial" -> 1
                   [] OTHER -> 2

\* the test of line 135  (variants: without the st_size test, without the
\* force test, with the force test inverted)
ShouldSkip_nosize(f, path) == ~f /\ isfile(path)
ShouldSkip_noforce(f, path) == isfile(path) /\ st_size(path) > 0
ShouldSkip_inverted(f, path) == f /\ isfile(path) /\ st_size(path) > 0
ShouldSkip(f, path) == ~f /\ isfile(path) /\ st_size(path) > 0

\* Size = namedtuple('Size', ('name', 'path', 'crop', 'width', 'height'))
Size(img, s) == [name |-> s.slug, path |-> thumbnail_path(img, s.slug),
                 crop |-> s.auto_size, width |-> s.width, height |-> s.height]

\* Command.get_sizes
get_sizes(img, str) ==
    { Size(img, s) : s \in { t \in SizeSet :
          str \/ (ImageDims(img)[1] >= t.width /\ ImageDims(img)[2] >= t.height) } }

(***************************************************************************)
(* The operator's answer at 'Continue? [Y/n]: '                            *)
(***************************************************************************)
Responses == { <<"n">>, <<" ", "N", " ">>, <<"y">>, <<>> }

lower(s) == [i \in 1..Len(s) |-> IF s[i] = "N" THEN "n"
                                  ELSE IF s[i] = "Y" THEN "y" ELSE s[i]]

RECURSIVE lstrip(_)
lstrip(s) == IF s # <<>> /\ Head(s) = " " THEN lstrip(Tail(s)) ELSE s

RECURSIVE rstrip(_)
rstrip(s) == IF s # <<>> /\ s[Len(s)] = " "
             THEN rstrip(SubSeq(s, 1, Len(s) - 1)) ELSE s

strip(s) == rstrip(lstrip(s))

\* resp.lower().strip() == 'n'
AnswersNo(resp) == strip(lower(resp)) = <<"n">>

(***************************************************************************)
(* Command.resize_image, activation p                                      *)
(***************************************************************************)
NoStatus == [s \in Slugs |-> "-"]

\* the call resize_image(image, sizes, force): the state on entry
Enter(p, img) ==
    /\ pc' = [pc EXCEPT ![p] = "loop"]
    /\ image' = [image EXCEPT ![p] = img]
    /\ sizes' = [sizes EXCEPT ![p] = get_sizes(img, stretch[p])]
    /\ cur' = [cur EXCEPT ![p] = NoSize]
    /\ tmp_path' = [tmp_path EXCEPT ![p] = Unbound]
    /\ exc' = [exc EXCEPT ![p] = ""]
    /\ status' = [status EXCEPT ![p] = NoStatus]
    /\ before' = [before EXCEPT ![p] = "absent"]
    /\ wrote' = [wrote EXCEPT ![p] = FALSE]
    /\ failed' = [failed EXCEPT ![p] = FALSE]

\* lines 129-142: take the next size; skip it, or make its folder
Loop(p) ==
    /\ pc[p] = "loop"
    /\ IF sizes[p] = {}
       THEN /\ pc' = [pc EXCEPT ![p] = "returned"]
            /\ UNCHANGED <<fs, dirs, sizes, cur, status, before, wrote>>
       ELSE \E size \in sizes[p] :
            /\ sizes' = [sizes EXCEPT ![p] = @ \ {size}]
            /\ cur' = [cur EXCEPT ![p] = size]
            /\ before' = [before EXCEPT ![p] = fs[size.path]]
            /\ IF ShouldSkip(force[p], size.path)
               THEN /\ status' = [status EXCEPT ![p][size.name] = "skipped"]
                    /\ UNCHANGED <<pc, dirs, wrote>>
               ELSE /\ dirs' = dirs \cup {Folder(size.path)}
                    /\ wrote' = [wrote EXCEPT ![p] = @ \/ Folder(size.path) \notin dirs]
                    /\ status' = [status EXCEPT ![p][size.name] = "attempted"]
                    /\ pc' = [pc EXCEPT ![p] = "try"]
            /\ UNCHANGED fs
    /\ UNCHANGED <<hpc, n, warned, herr, force, stretch, image, tmp_path, exc,
                   failed, prev>>
    /\ UNCHANGED <<procVars, geomVars, resizeVars>>

\* lines 146-151: rescale(image.copy(), ...) raises, or tmp_path is assigned
Rescale(p) ==
    /\ pc[p] = "try"
    /\ \E ok \in BOOLEAN :
         IF ok
         THEN /\ tmp_path' = [tmp_path EXCEPT ![p] = TmpPath(cur[p].path)]
              /\ pc' = [pc EXCEPT ![p] = "save"]
              /\ UNCHANGED failed
         ELSE /\ pc' = [pc EXCEPT ![p] = "except"]
              /\ failed' = [failed EXCEPT ![p] = TRUE]
              /\ UNCHANGED tmp_path
    /\ UNCHANGED <<fs, dirs, hpc, n, warned, herr, force, stretch, image, sizes,
                   cur, exc, status, before, wrote, prev>>
    /\ UNCHANGED <<procVars, geomVars, resizeVars>>

\* line 153, first half: thumbnail.save raises before it has the file open,
\* or opens (truncates) tmp_path and starts to write
SaveOpen(p) ==
    /\ pc[p] = "save"
    /\ \E ok \in BOOLEAN :
         IF ok
         THEN /\ fs' = [fs EXCEPT ![tmp_path[p]] = "partial"]
              /\ wrote' = [wrote EXCEPT ![p] = TRUE]
              /\ pc' = [pc EXCEPT ![p] = "saving"]
              /\ UNCHANGED failed
         ELSE /\ pc' = [pc EXCEPT ![p] = "except"]
              /\ failed' = [failed EXCEPT ![p] = TRUE]
              /\ UNCHANGED <<fs, wrote>>
    /\ UNCHANGED <<dirs, hpc, n, warned, herr, force, stretch, image, sizes, cur,
                   tmp_path, exc, status, before, prev>>
    /\ UNCHANGED <<procVars, geomVars, resizeVars>>

\* line 153, second half: the encoder finishes the file, or raises part-way.
\* A file that was renamed away meanwhile is no longer at tmp_path.
SaveWrite(p) ==
    /\ pc[p] = "saving"
    /\ \E ok \in BOOLEAN :
         IF ok
         THEN /\ fs' = IF fs[tmp_path[p]] = "absent" THEN fs
                       ELSE [fs EXCEPT ![tmp_path[p]] = "thumb"]
              /\ pc' = [pc EXCEPT ![p] = "else"]
              /\ UNCHANGED failed
         ELSE /\ pc' = [pc EXCEPT ![p] = "except"]
              /\ failed' = [failed EXCEPT ![p] = TRUE]
              /\ UNCHANGED fs
    /\ UNCHANGED <<dirs, hpc, n, warned, herr, force, stretch, image, sizes, cur,
                   tmp_path, exc, status, before, wrote, prev>>
    /\ UNCHANGED <<procVars, geomVars, resizeVars>>

\* lines 156-160: the handler formats tmp_path into the log message, then
\* asks the operator
Except(p) ==
    /\ pc[p] = "except"
    /\ status' = [status EXCEPT ![p][cur[p].name] = "failed"]
    /\ IF tmp_path[p] = Unbound
       THEN /\ pc' = [pc EXCEPT ![p] = "raised"]
            /\ exc' = [exc EXCEPT ![p] = "UnboundLocalError"]
       ELSE \E resp \in Responses :
              IF AnswersNo(resp)
              THEN /\ pc' = [pc EXCEPT ![p] = "raised"]
                   /\ exc' = [exc EXCEPT ![p] = "SystemExit"]
              ELSE /\ pc' = [pc EXCEPT ![p] = "loop"]
                   /\ UNCHANGED exc
    /\ UNCHANGED <<fs, dirs, hpc, n, warned, herr, force, stretch, image, sizes,
                   cur, tmp_path, before, wrote, failed, prev>>
    /\ UNCHANGED <<procVars, geomVars, resizeVars>>

\* lines 162-163: os.rename(tmp_path, size.path)
Else(p) ==
    /\ pc[p] = "else"
    /\ IF fs[tmp_path[p]] = "absent"
       THEN /\ pc' = [pc EXCEPT ![p] = "raised"]
            /\ exc' = [exc EXCEPT ![p] = "OSError"]
            /\ UNCHANGED <<fs, status, wrote>>
       ELSE /\ fs' = [fs EXCEPT ![cur[p].path] = fs[tmp_path[p]],
                                ![tmp_path[p]] = "absent"]
            /\ wrote' = [wrote EXCEPT ![p] = TRUE]
            /\ status' = [status EXCEPT ![p][cur[p].name] = "rendered"]
            /\ pc' = [pc EXCEPT ![p] = "loop"]
            /\ UNCHANGED exc
    /\ UNCHANGED <<dirs, hpc, n, warned, herr, force, stretch, image, sizes, cur,
                   tmp_path, before, failed, prev>>
    /\ UNCHANGED <<procVars, geomVars, resizeVars>>

(***************************************************************************)
(* Command.handle                                                          *)
(***************************************************************************)
\* lines 233-235: what the loop does after IOError from Image.open
\* (variant: the error leaves handle)
AfterOpenError_raise == "aborted"
AfterOpenError == "iter"

\* lines 220-238: the loops take the next (obj, field_name)
HandleItem ==
    /\ hpc = "iter"
    /\ pc[Main] = "idle"
    /\ n < MaxBatch
    /\ n' = n + 1
    /\ \E img \in Images, kind \in {"none", "unreadable", "ok"} :
         CASE kind = "none" ->
                UNCHANGED <<hpc, warned, pc, image, sizes, cur, tmp_path, exc,
                            status, before, wrote, failed>>
           [] kind = "unreadable" ->
                /\ hpc' = AfterOpenError
                /\ warned' = warned + 1
                /\ UNCHANGED <<pc, image, sizes, cur, tmp_path, exc, status,
                               before, wrote, failed>>
           [] kind = "ok" ->
                /\ Enter(Main, img)
                /\ UNCHANGED <<hpc, warned>>
    /\ UNCHANGED <<fs, dirs, herr, force, stretch, prev>>
    /\ UNCHANGED <<procVars, geomVars, resizeVars>>

\* line 238 returns: on to the next item
HandleReturn ==
    /\ hpc = "iter"
    /\ pc[Main] = "returned"
    /\ pc' = [pc EXCEPT ![Main] = "idle"]
    /\ prev' = [img |-> image[Main], clean |-> ~failed[Main],
                files |-> FilesOf(image[Main])]
    \* the frame of the call is gone
    /\ image' = [image EXCEPT ![Main] = ""]
    /\ cur' = [cur EXCEPT ![Main] = NoSize]
    /\ tmp_path' = [tmp_path EXCEPT ![Main] = Unbound]
    /\ status' = [status EXCEPT ![Main] = NoStatus]
    /\ before' = [before EXCEPT ![Main] = "absent"]
    /\ wrote' = [wrote EXCEPT ![Main] = FALSE]
    /\ failed' = [failed EXCEPT ![Main] = FALSE]
    /\ UNCHANGED <<fs, dirs, hpc, n, warned, herr, force, stretch, sizes, exc>>
    /\ UNCHANGED <<procVars, geomVars, resizeVars>>

\* lines 43-50: PrettyError turns an Exception into CommandError; SystemExit
\* is no Exception and passes
HandleRaise ==
    /\ hpc = "iter"
    /\ pc[Main] = "raised"
    /\ hpc' = "aborted"
    /\ herr' = IF exc[Main] = "SystemExit" THEN "SystemExit" ELSE "CommandError"
    /\ UNCHANGED <<fs, dirs, n, warned, pc, force, stretch, image, sizes, cur,
                   tmp_path, exc, status, before, wrote, failed, prev>>
    /\ UNCHANGED <<procVars, geomVars, resizeVars>>

\* the queryset is exhausted
HandleDone ==
    /\ hpc = "iter"
    /\ pc[Main] = "idle"
    /\ hpc' = "done"
    /\ UNCHANGED <<fs, dirs, n, warned, herr, pc, force, stretch, image, sizes,
                   cur, tmp_path, exc, status, before, wrote, failed, prev>>
    /\ UNCHANGED <<procVars, geomVars, resizeVars>>

(***************************************************************************)
(* The parts a specification does not run stay in these states             *)
(***************************************************************************)
None == <<>>
Some(v) == <<v>>

ProcOff ==
    /\ im = [format |-> "", extension |-> FALSE, filename |-> FALSE,
             nframes |-> 1, duration |-> 0, loop |-> 0]
    /\ save_filename = None
    /\ settings = [gifsicle |-> FALSE, numpy |-> FALSE, scipy |-> FALSE,
                   icc |-> FALSE]
    /\ ppc = "off"
    /\ images = <<>> /\ new_images = <<>>
    /\ warned_msgs = {} /\ written = <<>> /\ result = None

GeomOff ==
    /\ isz = [width |-> None, height |-> None, aspect_ratio |-> None]
    /\ gcall = [op |-> "", ret |-> None]
    /\ gexc = ""

\* An image object: its size and the operations that produced it.  The
\* operations of PIL return a new object and leave their operand as it is.
NoImage == [size |-> <<0, 0>>, ops |-> <<>>]

ResizeOff ==
    /\ sr_arg = [im |-> NoImage, final_w |-> 0, final_h |-> 0]
    /\ pillow_version = None
    /\ sr_pc = "off"
    /\ sr_im = NoImage
    /\ orig = <<0, 0>>
    /\ sr_i = 0
    /\ cropped = None
    /\ sr_ret = None

(***************************************************************************)
(* Initial states                                                          *)
(***************************************************************************)
\* a filesystem left by earlier runs: no temp files, the folders of the files
InitFs ==
    /\ fs \in { f \in [FilePaths -> {"absent", "empty", "old"}] :
                  \A p \in DestPaths : f[TmpPath(p)] = "absent" }
    /\ dirs = { Folder(p) : p \in { q \in DestPaths : fs[q] # "absent" } }

InitIdle ==
    /\ image = [p \in Procs |-> ""]
    /\ sizes = [p \in Procs |-> {}]
    /\ cur = [p \in Procs |-> NoSize]
    /\ tmp_path = [p \in Procs |-> Unbound]
    /\ exc = [p \in Procs |-> ""]
    /\ status = [p \in Procs |-> NoStatus]
    /\ before = [p \in Procs |-> "absent"]
    /\ wrote = [p \in Procs |-> FALSE]
    /\ failed = [p \in Procs |-> FALSE]

\* manage.py regenerate_thumbs: one command, process Main
Init ==
    /\ InitFs
    /\ hpc = "iter" /\ n = 0 /\ warned = 0 /\ herr = ""
    /\ pc = [p \in Procs |-> "idle"]
    /\ \E f \in BOOLEAN, s \in BOOLEAN :
         /\ force = [p \in Procs |-> f]
         /\ stretch = [p \in Procs |-> s]
    /\ InitIdle
    /\ prev = [img |-> "", clean |-> FALSE, files |-> [s \in Slugs |-> "absent"]]
    /\ ProcOff /\ GeomOff /\ ResizeOff

Next ==
    \/ HandleItem
    \/ HandleReturn
    \/ HandleRaise
    \/ HandleDone
    \/ Loop(Main)
    \/ Rescale(Main)
    \/ SaveOpen(Main)
    \/ SaveWrite(Main)
    \/ Except(Main)
    \/ Else(Main)

Spec == Init /\ [][Next]_vars

(***************************************************************************)
(* Two regenerate_thumbs commands at once: each runs resize_image on the   *)
(* same image; their steps interleave.                                     *)
(***************************************************************************)
InitConc ==
    /\ InitFs
    /\ \E c \in {"absent", "old"} : \A p \in DestPaths : fs[p] = c
    /\ hpc = "iter" /\ n = 0 /\ warned = 0 /\ herr = ""
    /\ pc = [p \in Procs |-> "loop"]
    /\ force \in [Procs -> BOOLEAN]
    /\ stretch = [p \in Procs |-> TRUE]
    /\ \E img \in Images :
         /\ image = [p \in Procs |-> img]
         /\ sizes = [p \in Procs |-> get_sizes(img, stretch[p])]
    /\ cur = [p \in Procs |-> NoSize]
    /\ tmp_path = [p \in Procs |-> Unbound]
    /\ exc = [p \in Procs |-> ""]
    /\ status = [p \in Procs |-> NoStatus]
    /\ before = [p \in Procs |-> "absent"]
    /\ wrote = [p \in Procs |-> FALSE]
    /\ failed = [p \in Procs |-> FALSE]
    /\ prev = [img |-> "", clean |-> FALSE, files |-> [s \in Slugs |-> "absent"]]
    /\ ProcOff /\ GeomOff /\ ResizeOff

NextConc ==
    \E p \in Procs :
        \/ Loop(p)
        \/ Rescale(p)
        \/ SaveOpen(p)
        \/ SaveWrite(p)
        \/ Except(p)
        \/ Else(p)

SpecConc == InitConc /\ [][NextConc]_vars

(***************************************************************************)
(* process_image (cropduster/utils/image.py)                               *)
(***************************************************************************)
MaxFrames == 2

Formats == {"GIF", "", "JPEG", "PNG"}    \* "" is im.format None

\* is_animated_gif: (im.format == 'GIF' or not im.format) and info.get('extension')
\* (variant: format GIF only)
is_animated_gif_gifonly(i) == i.format = "GIF" /\ i.extension
is_animated_gif(i) == (i.format = "GIF" \/ i.format = "") /\ i.extension

\* has_animated_gif_support: CROPDUSTER_GIFSICLE_PATH or (numpy and scipy)
\* (variant: numpy or scipy)
has_animated_gif_support_either(s) == s.gifsicle \/ s.numpy \/ s.scipy
has_animated_gif_support(s) == s.gifsicle \/ (s.numpy /\ s.scipy)

\* the image objects process_image handles: the source itself, its wrapper
\* for gifsicle, or one decoded frame; cb tells the callback has transformed it
Img(kind, k) == [kind |-> kind, frame |-> k, cb |-> FALSE]

\* GifsicleImage(im): one object standing for the whole animation
GifsicleImage(i) == Img("gifsicle", 0)

\* read_gif(filename, as_numpy=False): every frame of the file
read_gif(i) == [k \in 1..i.nframes |-> Img("frame", k)]

\* the per-frame transform the caller passes
callback(x) == [x EXCEPT !.cb = TRUE]

TmpGif == "<tempfile>.gif"
StaticWarning == "no animated gif support; image has been made static"
NumpyWarning == "using numpy algorithm to resize animated gif"

\* lines 130-156: is_animated, and the list `images`
PI_Frames ==
    /\ ppc = "start"
    /\ ppc' = "callback"
    /\ IF ~is_animated_gif(im)
       THEN /\ images' = <<Img("im", 0)>>
            /\ UNCHANGED <<warned_msgs, written>>
       ELSE IF ~has_animated_gif_support(settings)
       THEN /\ warned_msgs' = warned_msgs \cup {StaticWarning}
            /\ images' = <<Img("im", 0)>>
            /\ UNCHANGED written
       ELSE IF settings.gifsicle
       THEN /\ images' = <<GifsicleImage(im)>>
            /\ UNCHANGED <<warned_msgs, written>>
       ELSE /\ warned_msgs' = warned_msgs \cup {NumpyWarning}
            \* no file behind the image: im.save() to a NamedTemporaryFile
            /\ written' = IF ~im.filename
                          THEN Append(written, [path |-> TmpGif, kind |-> "source copy",
                                                frames |-> <<>>, duration |-> 0,
                                                repeat |-> 0, params |-> {}])
                          ELSE written
            /\ images' = read_gif(im)
    /\ UNCHANGED <<im, save_filename, settings, new_images, result>>
    /\ UNCHANGED <<regenVars, geomVars, resizeVars>>

\* line 158: new_images = [callback(i) for i in images]
PI_Callback ==
    /\ ppc = "callback"
    /\ new_images' = [k \in 1..Len(images) |-> callback(images[k])]
    /\ ppc' = "check"
    /\ UNCHANGED <<im, save_filename, settings, images, warned_msgs, written, result>>
    /\ UNCHANGED <<regenVars, geomVars, resizeVars>>

\* lines 160-163, 182: raise, go on to save, or return new_images[0]
PI_Check ==
    /\ ppc = "check"
    /\ IF is_animated_gif(im) /\ save_filename = None
       THEN ppc' = "raised" /\ UNCHANGED result
       ELSE IF save_filename # None
       THEN ppc' = "save" /\ UNCHANGED result
       ELSE ppc' = "returned" /\ result' = Some(new_images[1])
    /\ UNCHANGED <<im, save_filename, settings, images, new_images, warned_msgs,
                   written>>
    /\ UNCHANGED <<regenVars, geomVars, resizeVars>>

\* lines 173-177: the save parameters of a static image
SaveParams(i, s) ==
    (IF i.format = "JPEG" THEN {"quality"} ELSE {})
    \cup (IF i.format \in {"JPEG", "PNG"} /\ s.icc THEN {"icc_profile"} ELSE {})

\* lines 165-180: write_gif for several frames of an animation, else a static
\* save of new_images[0]; return PIL.Image.open(save_filename)
PI_Save ==
    /\ ppc = "save"
    /\ LET path == save_filename[1]
           file ==
             IF is_animated_gif(im) /\ Len(images) > 1
             THEN [path |-> path, kind |-> "animated", frames |-> new_images,
                   \* duration_ms = im.info.get('duration') or 100
                   duration |-> IF im.duration = 0 THEN 100 ELSE im.duration,
                   \* repeat = True unless info['loop'] != 0
                   repeat |-> IF im.loop # 0 THEN im.loop ELSE 1,
                   params |-> {}]
             ELSE [path |-> path, kind |-> "static", frames |-> <<new_images[1]>>,
                   duration |-> 0, repeat |-> 0, params |-> SaveParams(im, settings)]
       IN  /\ written' = Append(written, file)
           /\ result' = Some(file)
    /\ ppc' = "returned"
    /\ UNCHANGED <<im, save_filename, settings, images, new_images, warned_msgs>>
    /\ UNCHANGED <<regenVars, geomVars, resizeVars>>

RegenOff ==
    /\ fs = [p \in FilePaths |-> "absent"] /\ dirs = {}
    /\ hpc = "done" /\ n = 0 /\ warned = 0 /\ herr = ""
    /\ pc = [p \in Procs |-> "idle"]
    /\ force = [p \in Procs |-> FALSE]
    /\ stretch = [p \in Procs |-> FALSE]
    /\ InitIdle
    /\ prev = [img |-> "", clean |-> FALSE, files |-> [s \in Slugs |-> "absent"]]

InitProc ==
    /\ im \in [format : Formats, extension : BOOLEAN, filename : BOOLEAN,
               nframes : 1..MaxFrames, duration : {0, 40}, loop : {0, 3}]
    /\ save_filename \in {None, Some("out")}
    /\ settings \in [gifsicle : BOOLEAN, numpy : BOOLEAN, scipy : BOOLEAN,
                     icc : BOOLEAN]
    /\ ppc = "start"
    /\ images = <<>> /\ new_images = <<>>
    /\ warned_msgs = {} /\ written = <<>> /\ result = None
    /\ RegenOff /\ GeomOff /\ ResizeOff

NextProc ==
    \/ PI_Frames
    \/ PI_Callback
    \/ PI_Check
    \/ PI_Save

SpecProc == InitProc /\ [][NextProc]_vars

(***************************************************************************)
(* ImageSize (cropduster/models.py).  A nullable field is None or Some(v). *)
(* aspect_ratio is a float; the model keeps it exactly, in hundredths.     *)
(***************************************************************************)
MaxDim == 3

Dims == 0..MaxDim \cup {200}
Ratios == {-400, 0, 50, 133, 150, 400}      \* -4.0, 0.0, 0.5, 1.33, 1.5, 4.0

\* Python truth of a nullable number: neither None nor zero
Truthy(x) == x # None /\ x[1] # 0

\* int(a / b) for b # 0: the quotient truncated toward zero
IntQuot(a, b) ==
    IF (a >= 0) = (b > 0)
    THEN (IF a >= 0 THEN a ELSE -a) \div (IF b > 0 THEN b ELSE -b)
    ELSE -((IF a >= 0 THEN a ELSE -a) \div (IF b > 0 THEN b ELSE -b))

\* ImageSize.get_height: int(self.width / self.aspect_ratio)
\* (variant: width * aspect_ratio)
get_height_product(s) ==
    IF s.height = None /\ Truthy(s.width) /\ Truthy(s.aspect_ratio)
    THEN Some(IntQuot(s.width[1] * s.aspect_ratio[1], 100))
    ELSE s.height
get_height(s) ==
    IF s.height = None /\ Truthy(s.width) /\ Truthy(s.aspect_ratio)
    THEN Some(IntQuot(s.width[1] * 100, s.aspect_ratio[1]))
    ELSE s.height

\* ImageSize.get_width: int(self.height * self.aspect_ratio)
get_width(s) ==
    IF s.width = None /\ Truthy(s.height) /\ Truthy(s.aspect_ratio)
    THEN Some(IntQuot(s.height[1] * s.aspect_ratio[1], 100))
    ELSE s.width

CallGetHeight ==
    /\ gcall' = [op |-> "get_height", ret |-> get_height(isz)]
    /\ gexc' = ""
    /\ UNCHANGED isz
    /\ UNCHANGED <<regenVars, procVars, resizeVars>>

CallGetWidth ==
    /\ gcall' = [op |-> "get_width", ret |-> get_width(isz)]
    /\ gexc' = ""
    /\ UNCHANGED isz
    /\ UNCHANGED <<regenVars, procVars, resizeVars>>

\* Calling a value: the value of a FloatField is a float or None, and
\* neither is callable
IsCallable(v) == v # None /\ v[1] \notin Int

\* ImageSize.get_dimensions:
\*   (self.get_width(), self.get_height(), self.aspect_ratio())
\* The tuple's items are evaluated left to right; the third calls the field.
get_dimensions(s) ==
    LET w == get_width(s)
        h == get_height(s)
    IN  IF IsCallable(s.aspect_ratio)
        THEN [exc |-> "", val |-> <<w, h, s.aspect_ratio>>]
        ELSE [exc |-> "TypeError", val |-> None]

\* w if w is None else w * 2
Twice(x) == IF x = None THEN None ELSE Some(x[1] * 2)

\* ImageSize.get_retina: an exception of get_dimensions leaves get_retina too
get_retina(s) ==
    LET d == get_dimensions(s)
    IN  IF d.exc # ""
        THEN d
        ELSE [exc |-> "", val |-> <<Twice(d.val[1]), Twice(d.val[2]), d.val[3]>>]

CallGetDimensions ==
    /\ gcall' = [op |-> "get_dimensions", ret |-> get_dimensions(isz).val]
    /\ gexc' = get_dimensions(isz).exc
    /\ UNCHANGED isz
    /\ UNCHANGED <<regenVars, procVars, resizeVars>>

CallGetRetina ==
    /\ gcall' = [op |-> "get_retina", ret |-> get_retina(isz).val]
    /\ gexc' = get_retina(isz).exc
    /\ UNCHANGED isz
    /\ UNCHANGED <<regenVars, procVars, resizeVars>>

\* round(width / float(height), 2) in hundredths, for width, height > 0.
\* A quotient exactly halfway between two hundredths is not a float: which
\* neighbour round() yields depends on the float nearest to the quotient.
Round2(w, h) ==
    LET q == (w * 100) \div h
        r == (w * 100) % h
    IN  IF r * 2 < h THEN {q}
        ELSE IF r * 2 > h THEN {q + 1}
        ELSE {q, q + 1}

\* ImageSize.save: aspect_ratio = 1 unless height and width are both true,
\* else the rounded quotient; then the row is stored
save_aspect_ratio(s) ==
    IF ~(Truthy(s.height) /\ Truthy(s.width))
    THEN {100}
    ELSE Round2(s.width[1], s.height[1])

CallSave ==
    /\ \E a \in save_aspect_ratio(isz) :
          isz' = [isz EXCEPT !.aspect_ratio = Some(a)]
    /\ gcall' = [op |-> "save", ret |-> None]
    /\ gexc' = ""
    /\ UNCHANGED <<regenVars, procVars, resizeVars>>

InitGeom ==
    /\ isz \in [width : {None} \cup {Some(d) : d \in Dims},
                height : {None} \cup {Some(d) : d \in Dims},
                aspect_ratio : {None} \cup {Some(r) : r \in Ratios}]
    /\ gcall = [op |-> "", ret |-> None]
    /\ gexc = ""
    /\ RegenOff /\ ProcOff /\ ResizeOff

NextGeom ==
    \/ CallGetHeight
    \/ CallGetWidth
    \/ CallGetDimensions
    \/ CallGetRetina
    \/ CallSave

SpecGeom == InitGeom /\ [][NextGeom]_vars

(***************************************************************************)
(* smart_resize (cropduster/utils/image.py).  The module divides with      *)
(* `from __future__ import division`: i / 8 and crop_w / 2 are true        *)
(* quotients, kept exactly here by comparing and truncating over the       *)
(* common denominator.                                                     *)
(***************************************************************************)
MaxSide == 17
MaxFinal == 2

Sides == 1..MaxSide
Finals == 1..MaxFinal

\* PIL.PILLOW_VERSION as LooseVersion compares it: the list of its numbers
PillowVersions == {None, Some(<<2, 6, 1>>), Some(<<2, 7, 0>>)}
VersionGE(a, b) ==
    \/ a[1] > b[1]
    \/ a[1] = b[1] /\ a[2] > b[2]
    \/ a[1] = b[1] /\ a[2] = b[2] /\ a[3] >= b[3]

\* the improved bicubic filter is available
HasNewBicubic(v) == v # None /\ VersionGE(v[1], <<2, 7, 0>>)

\* im.resize(size, filter) and im.crop(box): a new image
resize(i, size, filter) == [size |-> size, ops |-> Append(i.ops, filter)]
crop(i, box) ==
    [size |-> <<box[3] - box[1], box[4] - box[2]>>,
     ops |-> Append(i.ops, "crop")]

\* orig_w <= final_w and orig_h <= final_h
\* (variant: one axis is enough)
NoResizeNeeded_either(o, fw, fh) == o[1] <= fw \/ o[2] <= fh
NoResizeNeeded(o, fw, fh) == o[1] <= fw /\ o[2] <= fh

\* scaled_w >= goal_w and scaled_h >= goal_h, with ratio = i / 8,
\* scaled = orig * ratio and goal = final * 1.5
ScaledReachesGoal(i, o, fw, fh) ==
    /\ o[1] * i * 2 >= fw * 3 * 8
    /\ o[2] * i * 2 >= fh * 3 * 8

\* the box of the pre-crop: (floor(crop_w / 2), floor(crop_h / 2),
\*  orig_w - ceil(crop_w / 2), orig_h - ceil(crop_h / 2))
CropBox(o) ==
    LET crop_w == o[1] % 8
        crop_h == o[2] % 8
    IN  <<crop_w \div 2, crop_h \div 2,
          o[1] - ((crop_w + 1) \div 2), o[2] - ((crop_h + 1) \div 2)>>

\* lines 195-203: nothing to do, or the single bicubic resize, or the loop
SR_Start ==
    /\ sr_pc = "start"
    /\ IF NoResizeNeeded(orig, sr_arg.final_w, sr_arg.final_h)
       THEN /\ sr_ret' = Some(sr_im)
            /\ sr_pc' = "returned"
            /\ UNCHANGED sr_i
       ELSE IF HasNewBicubic(pillow_version)
       THEN /\ sr_ret' = Some(resize(sr_im, <<sr_arg.final_w, sr_arg.final_h>>,
                                     "BICUBIC"))
            /\ sr_pc' = "returned"
            /\ UNCHANGED sr_i
       ELSE /\ sr_pc' = "loop"
            /\ sr_i' = 1
            /\ UNCHANGED sr_ret
    /\ UNCHANGED <<sr_arg, pillow_version, sr_im, orig, cropped>>
    /\ UNCHANGED <<regenVars, procVars, geomVars>>

\* lines 210-214: one iteration of `for i in xrange(1, 8)`
SR_Loop ==
    /\ sr_pc = "loop"
    /\ IF ScaledReachesGoal(sr_i, orig, sr_arg.final_w, sr_arg.final_h)
       THEN sr_pc' = "crop" /\ UNCHANGED sr_i
       ELSE IF sr_i < 7
       THEN sr_i' = sr_i + 1 /\ UNCHANGED sr_pc
       ELSE sr_pc' = "final" /\ UNCHANGED sr_i
    /\ UNCHANGED <<sr_arg, pillow_version, sr_im, orig, cropped, sr_ret>>
    /\ UNCHANGED <<regenVars, procVars, geomVars>>

\* lines 218-225: `if not crop_w or not crop_h:` calls im.crop(...) and drops
\* what it returns, then reads (orig_w, orig_h) from im.size
SR_Crop ==
    /\ sr_pc = "crop"
    /\ IF orig[1] % 8 = 0 \/ orig[2] % 8 = 0
       THEN /\ cropped' = Some(crop(sr_im, CropBox(orig)))
            /\ orig' = sr_im.size
       ELSE UNCHANGED <<cropped, orig>>
    /\ sr_pc' = "coarse"
    /\ UNCHANGED <<sr_arg, pillow_version, sr_im, sr_i, sr_ret>>
    /\ UNCHANGED <<regenVars, procVars, geomVars>>

\* lines 228-230:
\*   im = im.resize((int(orig_w * ratio), int(orig_w * ratio)), NEAREST)
SR_Coarse ==
    /\ sr_pc = "coarse"
    /\ sr_im' = resize(sr_im, <<(orig[1] * sr_i) \div 8, (orig[1] * sr_i) \div 8>>,
                       "NEAREST")
    /\ sr_pc' = "final"
    /\ UNCHANGED <<sr_arg, pillow_version, orig, sr_i, cropped, sr_ret>>
    /\ UNCHANGED <<regenVars, procVars, geomVars>>

\* line 233: return im.resize((final_w, final_h), ANTIALIAS)
SR_Final ==
    /\ sr_pc = "final"
    /\ sr_ret' = Some(resize(sr_im, <<sr_arg.final_w, sr_arg.final_h>>,
                             "ANTIALIAS"))
    /\ sr_pc' = "returned"
    /\ UNCHANGED <<sr_arg, pillow_version, sr_im, orig, sr_i, cropped>>
    /\ UNCHANGED <<regenVars, procVars, geomVars>>

\* smart_resize is entered with an image of any size; line 194 has read
\* (orig_w, orig_h) = im.size
InitResize ==
    /\ sr_arg \in [im : [size : Sides \X Sides, ops : {<<>>}],
                   final_w : Finals, final_h : Finals]
    /\ pillow_version \in PillowVersions
    /\ sr_pc = "start"
    /\ sr_im = sr_arg.im
    /\ orig = sr_arg.im.size
    /\ sr_i = 0
    /\ cropped = None
    /\ sr_ret = None
    /\ RegenOff /\ ProcOff /\ GeomOff

NextResize ==
    \/ SR_Start
    \/ SR_Loop
    \/ SR_Crop
    \/ SR_Coarse
    \/ SR_Final

SpecResize == InitResize /\ [][NextResize]_vars

(***************************************************************************)
(* Properties of the regeneration driver                                   *)
(***************************************************************************)
\* the sizes the activation of p was called with
CalledSizes(p) == get_sizes(image[p], stretch[p])

\* C1: whenever the loop of resize_image takes a size, the size is skipped
\* (nothing rescaled, no file or folder touched, on to the next size) if and
\* only if force is false and the output path holds a file of more than zero
\* bytes; otherwise (missing or zero-byte file, or force) it goes on to rescale.
C1_SkipIffGenerated ==
    [][\A p \in Procs :
         (pc[p] = "loop" /\ sizes'[p] # sizes[p]) =>
           LET size == cur'[p]
               generated == fs[size.path] \notin {"absent", "empty"}
           IN  IF ~force[p] /\ generated
               THEN /\ pc'[p] = "loop"
                    /\ status'[p][size.name] = "skipped"
                    /\ fs' = fs /\ dirs' = dirs /\ tmp_path' = tmp_path
               ELSE /\ pc'[p] = "try"
                    /\ status'[p][size.name] = "attempted"]_vars

\* C1 witness: without force, one size was skipped and a zero-byte output of
\* another size is being regenerated
C1_Witness ==
    /\ ~force[Main]
    /\ pc[Main] = "try"
    /\ before[Main] = "empty"
    /\ \E s \in Slugs : status[Main][s] = "skipped"

C3_AtomicSave ==
    /\ \A d \in DestPaths : fs[d] # "partial"
    /\ \A p \in Procs :
         /\ pc[p] \in {"try", "save", "saving", "else", "except", "raised"} =>
               fs[cur[p].path] = before[p]
         /\ pc[p] \in {"saving", "else"} =>
               tmp_path[p] = [cur[p].path EXCEPT !.ext = cur[p].path.ext \o ".tmp"]
         /\ pc[p] = "else" => fs[tmp_path[p]] = "thumb"

\* C3 witness: save raised part-way; the temp file is partial and the
\* destination still holds its old content
C3_Witness ==
    /\ pc[Main] = "except"
    /\ tmp_path[Main] = TmpPath(cur[Main].path)
    /\ fs[tmp_path[Main]] = "partial"
    /\ before[Main] = "old" /\ fs[cur[Main].path] = "old"

\* C4 as stated: the only exception that leaves resize_image is the exit the
\* operator asked for with 'n', and a call that returns has taken every size
C4_FailureIsolated ==
    /\ pc[Main] = "raised" => exc[Main] = "SystemExit"
    /\ pc[Main] = "returned" =>
         \A size \in CalledSizes(Main) : status[Main][size.name] # "-"

\* C5 as stated: two operations writing the output of the same destination
\* never have the same temp path, and no destination holds a partial file
C5_UniqueTmp ==
    /\ \A p, q \in Procs :
         (p # q /\ pc[p] \in {"save", "saving", "else"}
                /\ pc[q] \in {"save", "saving", "else"}
                /\ cur[p].path = cur[q].path) => tmp_path[p] # tmp_path[q]
    /\ \A d \in DestPaths : fs[d] # "partial"

\* C6: with force no size is skipped whatever its output file holds; a call
\* that returns has attempted every size; every size whose rescale and save
\* succeeded has the new file at its destination
C6_Forced ==
    (force[Main] /\ pc[Main] # "idle") =>
        /\ \A s \in Slugs : status[Main][s] # "skipped"
        /\ pc[Main] = "returned" =>
             \A size \in CalledSizes(Main) :
                 status[Main][size.name] \in {"rendered", "failed"}
        /\ \A size \in CalledSizes(Main) :
             status[Main][size.name] = "rendered" => fs[size.path] = "thumb"

\* C6 witness: a forced call has replaced a zero-byte output by the new file
C6_Witness ==
    /\ force[Main] /\ pc[Main] = "loop"
    /\ \E s \in Slugs : cur[Main].name = s /\ status[Main][s] = "rendered"
    /\ before[Main] = "empty" /\ fs[cur[Main].path] = "thumb"

\* C7: the step that logs 'Could not open image' computes no sizes, starts no
\* resize and touches no file, and leaves the loop running; handle is only
\* ever left early by an exception out of resize_image
C7_UnreadableSkipped ==
    /\ [](hpc = "aborted" => pc[Main] = "raised")
    /\ [][warned' # warned =>
            /\ fs' = fs /\ dirs' = dirs
            /\ pc' = pc /\ sizes' = sizes /\ status' = status
            /\ hpc' = "iter" /\ herr' = herr]_vars

\* C7 witness: after a source that could not be opened, a later source has
\* been resized
C7_Witness ==
    /\ warned > 0 /\ pc[Main] = "returned"
    /\ \E s \in Slugs : status[Main][s] = "rendered"

(***************************************************************************)
(* Properties of process_image                                             *)
(***************************************************************************)
Finished == ppc \in {"returned", "raised"}

\* animated as the claims word it: format GIF or unknown, with an
\* 'extension' entry in info
Animated == im.format \in {"GIF", ""} /\ im.extension

\* no gifsicle path configured, and numpy and scipy not both available
NoGifSupport == ~settings.gifsicle /\ ~(settings.numpy /\ settings.scipy)

\* C8 as stated: without save_filename, an animated source makes
\* process_image raise with no file written, and any other source makes it
\* return the one frame the callback produced
C8_AnimatedNeedsDestination ==
    (Finished /\ save_filename = None) =>
        IF Animated
        THEN ppc = "raised" /\ written = <<>>
        ELSE ppc = "returned"
             /\ result = Some([kind |-> "im", frame |-> 0, cb |-> TRUE])

\* C8 amended: as C8, but what is not written is an output file: the one
\* file that may be written is the temporary .gif copy of the source, made on
\* the numpy path for a source with no file behind it
C8_AnimatedNeedsDestinationNoOutput ==
    (Finished /\ save_filename = None) =>
        IF Animated
        THEN /\ ppc = "raised"
             /\ \A k \in 1..Len(written) :
                  /\ written[k].path = TmpGif /\ written[k].kind = "source copy"
                  /\ ~settings.gifsicle /\ settings.numpy /\ settings.scipy
                  /\ ~im.filename
             /\ Len(written) <= 1
        ELSE /\ ppc = "returned"
             /\ result = Some([kind |-> "im", frame |-> 0, cb |-> TRUE])
             /\ written = <<>>

\* C8 witness: an animated source of unknown format, no save_filename: raised
C8_Witness ==
    /\ ppc = "raised" /\ save_filename = None
    /\ im.format = "" /\ im.extension

\* C9 as stated: an animated source without animated-GIF support never makes
\* process_image fail: the degradation warning is issued, one frame goes
\* through the callback, and the output is one static frame
C9_DegradesToStatic ==
    (Finished /\ Animated /\ NoGifSupport) =>
        /\ ppc = "returned"
        /\ StaticWarning \in warned_msgs
        /\ Len(images) = 1 /\ Len(new_images) = 1
        /\ save_filename # None =>
             /\ Len(written) = 1
             /\ written[1].kind = "static" /\ Len(written[1].frames) = 1
             /\ result = Some(written[1])

\* C9 amended: the same, when a save_filename is supplied
C9_DegradesToStaticWhenSaved ==
    (Finished /\ Animated /\ NoGifSupport /\ save_filename # None) =>
        /\ ppc = "returned"
        /\ StaticWarning \in warned_msgs
        /\ Len(images) = 1 /\ Len(new_images) = 1
        /\ Len(written) = 1
        /\ written[1].path = save_filename[1]
        /\ written[1].kind = "static" /\ Len(written[1].frames) = 1
        /\ result = Some(written[1])

\* C9 witness: a source of several frames, numpy without scipy, saved as one
\* static frame
C9_Witness ==
    /\ ppc = "returned" /\ Animated /\ NoGifSupport
    /\ settings.numpy /\ im.nframes > 1
    /\ Len(written) = 1 /\ written[1].kind = "static"

(***************************************************************************)
(* Properties of ImageSize                                                 *)
(***************************************************************************)
\* floor(a / b) for b # 0
Floor(a, b) == IF b > 0 THEN a \div b ELSE (-a) \div (-b)

\* C10 as stated: width and height both present are returned as they are;
\* with a width and a ratio only, get_height is floor(width / ratio) (where
\* the quotient exists); with a height and a ratio only, get_width is
\* floor(height * ratio)
C10_Geometry ==
    /\ (gcall.op = "get_height" /\ isz.height # None) => gcall.ret = isz.height
    /\ (gcall.op = "get_width" /\ isz.width # None) => gcall.ret = isz.width
    /\ (gcall.op = "get_height" /\ isz.height = None /\ isz.width # None
          /\ isz.aspect_ratio # None /\ isz.aspect_ratio[1] # 0) =>
         gcall.ret = Some(Floor(isz.width[1] * 100, isz.aspect_ratio[1]))
    /\ (gcall.op = "get_width" /\ isz.width = None /\ isz.height # None
          /\ isz.aspect_ratio # None /\ isz.aspect_ratio[1] # 0) =>
         gcall.ret = Some(Floor(isz.height[1] * isz.aspect_ratio[1], 100))

\* C10 amended: the derived dimension is that floor for a width (height)
\* that is not zero and a ratio above zero
C10_GeometryNonZero ==
    /\ (gcall.op = "get_height" /\ isz.height # None) => gcall.ret = isz.height
    /\ (gcall.op = "get_width" /\ isz.width # None) => gcall.ret = isz.width
    /\ (gcall.op = "get_height" /\ isz.height = None /\ isz.width # None
          /\ isz.width[1] > 0
          /\ isz.aspect_ratio # None /\ isz.aspect_ratio[1] > 0) =>
         gcall.ret = Some(Floor(isz.width[1] * 100, isz.aspect_ratio[1]))
    /\ (gcall.op = "get_width" /\ isz.width = None /\ isz.height # None
          /\ isz.height[1] > 0
          /\ isz.aspect_ratio # None /\ isz.aspect_ratio[1] > 0) =>
         gcall.ret = Some(Floor(isz.height[1] * isz.aspect_ratio[1], 100))

\* C10 witness: width 200, no height, ratio 4.0: get_height gave 50
C10_Witness ==
    /\ isz = [width |-> Some(200), height |-> None, aspect_ratio |-> Some(400)]
    /\ gcall = [op |-> "get_height", ret |-> Some(50)]

\* C11 -- get_retina returns twice the resolved width and twice the resolved
\* height (a dimension that resolves to None stays None) together with the
\* size's aspect ratio, and completes without raising.
C11_Retina ==
    gcall.op = "get_retina" =>
        /\ gexc = ""
        /\ gcall.ret = <<Twice(get_width(isz)), Twice(get_height(isz)),
                         isz.aspect_ratio>>

\* C13 -- save keeps an aspect ratio that was given: when width and height
\* are not both known, a given ratio is left as it is and only a missing
\* ratio becomes 1; so width 200, no height, ratio 4.0 still has ratio 4.0
\* (and resolves to height 50) after save.
C13_GivenRatioKept ==
    [][(gcall'.op = "save" /\ ~(Truthy(isz.height) /\ Truthy(isz.width))) =>
          IF isz.aspect_ratio # None
          THEN isz'.aspect_ratio = isz.aspect_ratio
          ELSE isz'.aspect_ratio = Some(100)]_vars

(***************************************************************************)
(* Properties of smart_resize                                              *)
(***************************************************************************)
\* the source and the target of the call
SrcW == sr_arg.im.size[1]
SrcH == sr_arg.im.size[2]
MultiStep ==
    /\ sr_pc # "off"
    /\ ~HasNewBicubic(pillow_version)
    /\ SrcW > sr_arg.final_w \/ SrcH > sr_arg.final_h

\* the eighths i with both orig_w*i/8 >= 1.5*final_w and
\* orig_h*i/8 >= 1.5*final_h
GoodEighths ==
    {i \in 1..7 : /\ 2 * SrcW * i >= 24 * sr_arg.final_w
                  /\ 2 * SrcH * i >= 24 * sr_arg.final_h}
SmallestEighth == CHOOSE i \in GoodEighths : \A j \in GoodEighths : i <= j

\* C12 -- smart_resize returns its input image itself whenever the source is
\* no wider and no higher than the target; in every other case the returned
\* image has exactly the dimensions (final_w, final_h).
C12_NoopOrFinalSize ==
    sr_pc = "returned" =>
        IF SrcW <= sr_arg.final_w /\ SrcH <= sr_arg.final_h
        THEN sr_ret = Some(sr_arg.im)
        ELSE /\ sr_ret # None
             /\ sr_ret[1].size = <<sr_arg.final_w, sr_arg.final_h>>

\* a source that exceeds the target in one axis only has been resized
C12_Witness ==
    /\ sr_pc = "returned"
    /\ SrcW <= sr_arg.final_w /\ SrcH > sr_arg.final_h
    /\ sr_ret # None
    /\ sr_ret[1].size = <<sr_arg.final_w, sr_arg.final_h>>
    /\ sr_ret[1] # sr_arg.im

\* C14 -- on the multi-step path the ratio is the smallest i/8, i in 1..7,
\* that keeps both axes at 1.5 times the target or more; the coarse resize
\* yields (floor(orig_w*i/8), floor(orig_h*i/8)); when there is no such i
\* the coarse step is skipped and only the final resize is done.
C14_CoarseEighths ==
    MultiStep =>
        /\ sr_pc \in {"crop", "coarse"} =>
              GoodEighths # {} /\ sr_i = SmallestEighth
        /\ (sr_pc = "final" /\ GoodEighths # {}) =>
              /\ sr_im.ops = <<"NEAREST">>
              /\ sr_im.size = <<(SrcW * SmallestEighth) \div 8,
                                (SrcH * SmallestEighth) \div 8>>
        /\ (sr_pc \in {"final", "returned"} /\ GoodEighths = {}) =>
              sr_im = sr_arg.im
        /\ (sr_pc = "returned" /\ GoodEighths = {}) =>
              sr_ret[1].ops = <<"ANTIALIAS">>

\* C15 -- on the multi-step path the image fed to the coarse resize has been
\* pre-cropped by orig_w % 8 columns and orig_h % 8 rows, so that both of its
\* sides are multiples of 8; a source whose sides are multiples of 8 already
\* is fed as it is.
C15_PreCrop ==
    (MultiStep /\ sr_pc = "coarse") =>
        /\ sr_im.size = <<SrcW - (SrcW % 8), SrcH - (SrcH % 8)>>
        /\ orig = sr_im.size
        /\ (SrcW % 8 = 0 /\ SrcH % 8 = 0) => sr_im = sr_arg.im

====
